---- MODULE Spec2Model ----
(***************************************************************************)
(* Model of the Prometheus service exporter: the per-service liveness      *)
(* tracker (pid discovery, re-verification), the parsing of the kernel's   *)
(* per-process stat record and the metric arithmetic of Collect.           *)
(***************************************************************************)
EXTENDS Integers, Sequences, FiniteSets, Bags, TLC

(***************************************************************************)
(* Text.  A string is a sequence of one-character strings, so that         *)
(* strings.Split, strconv.ParseInt and strconv.Itoa are computed.          *)
(***************************************************************************)
Digits == <<"0", "1", "2", "3", "4", "5", "6", "7", "8", "9">>

IsDigit(c) == \E i \in 1..10 : Digits[i] = c

DigitVal(c) == (CHOOSE i \in 1..10 : Digits[i] = c) - 1

RECURSIVE ItoaNat(_)
ItoaNat(n) == IF n < 10 THEN <<Digits[n + 1]>>
              ELSE ItoaNat(n \div 10) \o <<Digits[(n % 10) + 1]>>

\* strconv.Itoa
Itoa(n) == IF n < 0 THEN <<"-">> \o ItoaNat(-n) ELSE ItoaNat(n)

RECURSIVE DecimalValue(_, _)
DecimalValue(s, acc) == IF s = <<>> THEN acc
                        ELSE DecimalValue(Tail(s), 10 * acc + DigitVal(Head(s)))

AllDigits(s) == s # <<>> /\ \A i \in 1..Len(s) : IsDigit(s[i])

\* strconv.ParseInt(s, 10, 64): an optional sign followed by decimal digits,
\* anything else is an error.
ParseInt(s) ==
    IF s # <<>> /\ Head(s) \in {"-", "+"}
    THEN IF AllDigits(Tail(s))
         THEN [err |-> FALSE,
               val |-> IF Head(s) = "-" THEN 0 - DecimalValue(Tail(s), 0)
                       ELSE DecimalValue(Tail(s), 0)]
         ELSE [err |-> TRUE, val |-> 0]
    ELSE IF AllDigits(s) THEN [err |-> FALSE, val |-> DecimalValue(s, 0)]
         ELSE [err |-> TRUE, val |-> 0]

\* strings.Split on s[lo..hi], by halves: the last piece of the left half and
\* the first piece of the right half are one piece.
RECURSIVE SplitRange(_, _, _, _)
SplitRange(s, sep, lo, hi) ==
    IF lo > hi THEN << <<>> >>
    ELSE IF lo = hi THEN (IF s[lo] = sep THEN << <<>>, <<>> >> ELSE << <<s[lo]>> >>)
    ELSE LET mid == (lo + hi) \div 2
             l == SplitRange(s, sep, lo, mid)
             r == SplitRange(s, sep, mid + 1, hi)
         IN  SubSeq(l, 1, Len(l) - 1) \o << l[Len(l)] \o r[1] >> \o Tail(r)

\* strings.Split(s, sep) for a one-character sep: one more piece than there
\* are separators.
Split(s, sep) == SplitRange(s, sep, 1, Len(s))

IsSpace(c) == c \in {" ", "\n", "\t", "\r"}

RECURSIVE TrimLeft(_)
TrimLeft(s) == IF s # <<>> /\ IsSpace(Head(s)) THEN TrimLeft(Tail(s)) ELSE s

RECURSIVE TrimRight(_)
TrimRight(s) == IF s # <<>> /\ IsSpace(s[Len(s)])
                THEN TrimRight(SubSeq(s, 1, Len(s) - 1)) ELSE s

\* strings.TrimSpace
TrimSpace(s) == TrimRight(TrimLeft(s))

RECURSIVE JoinRange(_, _, _)
JoinRange(fs, lo, hi) ==
    IF lo > hi THEN <<>>
    ELSE IF lo = hi THEN fs[lo]
    ELSE LET mid == (lo + hi) \div 2
         IN  JoinRange(fs, lo, mid) \o <<" ">> \o JoinRange(fs, mid + 1, hi)

\* The pieces with one space between them.
Join(fs) == JoinRange(fs, 1, Len(fs))

(***************************************************************************)
(* The kernel's per-process stat record, proc(5): space-separated fields,  *)
(* pid, (comm), state, ... and a line feed after the last one.             *)
(***************************************************************************)
\* Number of fields the kernel writes.
NumStatFields == 52

\* The fields of the record of process pid with accounting data k, in the
\* kernel's order (counted from 1: utime 14, stime 15, cutime 16, cstime 17,
\* priority 18, nice 19, starttime 22, vsize 23, rss 24).
KernelFields(pid, k) ==
    [i \in 1..k.nfields |->
        CASE i = 1  -> Itoa(pid)
          [] i = 2  -> <<"(">> \o k.comm \o <<")">>
          [] i = 3  -> <<"S">>
          [] i = 4  -> Itoa(1)
          [] i = 14 -> Itoa(k.utime)
          [] i = 15 -> Itoa(k.stime)
          [] i = 16 -> Itoa(k.cutime)
          [] i = 17 -> Itoa(k.cstime)
          [] i = 18 -> Itoa(k.priority)
          [] i = 19 -> Itoa(k.nice)
          [] i = 20 -> Itoa(1)
          [] i = 22 -> Itoa(k.starttime)
          [] i = 23 -> Itoa(k.vsize)
          [] i = 24 -> Itoa(k.rss)
          [] OTHER  -> Itoa(0)]

\* The text of /proc/<pid>/stat.
StatFile(pid, k) == Join(KernelFields(pid, k)) \o <<"\n">>

(***************************************************************************)
(* What the environment can answer.  Words without separators or digits    *)
(* are written as one element of the text.                                 *)
(***************************************************************************)
\* The service names an exporter can be started with (main, line 407).
ServiceNameSets == {{"alpha"}, {"alpha", "beta"}}

\* The concurrent Collect calls (one per scrape request being served).
Procs == {1, 2}

\* Pids the service manager reports.
Pids == {700, 900}

\* Values of getconf CLK_TCK.
TickRates == {100}

Stat(comm, ut, st, cut, cst, start, vs, rss, n) ==
    [comm |-> comm, utime |-> ut, stime |-> st, cutime |-> cut, cstime |-> cst,
     priority |-> 20, nice |-> 0, starttime |-> start, vsize |-> vs, rss |-> rss,
     nfields |-> n]

\* The record of a process given another nice value (-20 .. 19): the kernel
\* shows 20 + nice as the priority of a process under the default scheduler.
Reniced(k, nice) == [k EXCEPT !.priority = 20 + nice, !.nice = nice]

\* Command names: plain, and with a space and parentheses.
CommPlain == <<"cron">>
CommSpace == <<"(", "sd", " ", "pam", ")">>

\* The accounting data a read of /proc/<pid>/stat can find: a process at two
\* moments of its life, and at the second one with the nice value -20, the
\* same data under another command name, another process (a later start
\* tick), and a record cut short.
KernelStats ==
    { Stat(CommPlain, 10, 5, 0, 0, 1000, 4096000, 50, NumStatFields),
      Stat(CommPlain, 12, 7, 3, 2, 1000, 4100000, 60, NumStatFields),
      Reniced(Stat(CommPlain, 12, 7, 3, 2, 1000, 4100000, 60, NumStatFields), -20),
      Stat(CommSpace, 10, 5, 0, 0, 1000, 4096000, 50, NumStatFields),
      Stat(CommPlain, 1, 1, 4, 0, 2000, 8192000, 70, NumStatFields),
      Stat(CommPlain, 10, 5, 0, 0, 1000, 4096000, 50, 24) }

\* Output of "service <name> status" (Upstart).
StatusRunning(pid) ==
    <<"job", " ", "start/running", ",", " ", "process", " ">> \o Itoa(pid) \o <<"\n">>

StatusStopped == <<"job", " ", "stop/waiting", "\n">>

StatusOutputs == {StatusRunning(pid) : pid \in Pids} \cup {StatusStopped}

\* The text of /proc/uptime: uptime and idle time, in seconds.
UptimeFiles ==
    { <<"5", "0", ".", "0", "0", " ", "9", "1", ".", "5", "0", "\n">>,
      <<"6", "0", ".", "2", "5", " ", "9", "9", ".", "0", "0", "\n">> }

(***************************************************************************)
(* The program's constants and pure parts.                                 *)
(***************************************************************************)
\* Indexes into the split record, counted from 0.
PROC_PID_STAT_STARTTIME == 21
PROC_PID_STAT_UTIME == 15
PROC_PID_STAT_STIME == 16
PROC_PID_STAT_CUTIME == 17
PROC_PID_STAT_CSTIME == 18
PROC_PID_STAT_VSIZE == 22
PROC_PID_STAT_RSS == 23

\* readProcStatData's minimum number of pieces.
MinStatFields == 25

\* A nil []string.
Nil == <<>>

\* Go's slice[idx], idx counted from 0.
At(data, idx) == data[idx + 1]

\* A reset that leaves the CPU and memory values as they are.
resetKeepsSnapshot(sv) == [sv EXCEPT !.pid = -1, !.procStatStartTime = -1]

\* A reset that leaves the start time as it is.
resetKeepsStartTime(sv) ==
    [sv EXCEPT !.pid = -1, !.procStatCPUSelfTime = 0, !.procStatCPUTime = 0,
               !.procStatVSize = 0, !.procStatRSS = 0]

\* A reset that leaves the memory values as they are.
resetKeepsMemory(sv) ==
    [sv EXCEPT !.pid = -1, !.procStatStartTime = -1,
               !.procStatCPUSelfTime = 0, !.procStatCPUTime = 0]

\* service.reset
reset(sv) ==
    [sv EXCEPT !.pid = -1, !.procStatStartTime = -1,
               !.procStatCPUSelfTime = 0, !.procStatCPUTime = 0,
               !.procStatVSize = 0, !.procStatRSS = 0]

\* newSvcCollector: a service as constructed.
NewService == reset([pid |-> 0, procStatStartTime |-> 0, procStatCPUSelfTime |-> 0,
                     procStatCPUTime |-> 0, procStatVSize |-> 0, procStatRSS |-> 0])

\* readProcStatData on an existing file: split, and the length check.
readProcStatData(raw) ==
    LET procStatData == Split(raw, " ")
    IN  [fatal |-> Len(procStatData) < MinStatFields, data |-> procStatData]

\* src/exporter.go, readProcStatData: split, and the length check.
exporterGoReadProcStatData(raw) ==
    LET procStatData == Split(raw, " ")
    IN  [fatal |-> Len(procStatData) < 20, data |-> procStatData]

\* askServiceForPID on the command's output.
askServiceForPID(output) ==
    LET commaSeparated == Split(output, ",")
        parts == Split(commaSeparated[1], " ")
        status == parts[Len(parts)]
        parts2 == Split(commaSeparated[2], " ")
        pid == ParseInt(TrimSpace(parts2[Len(parts2)]))
    IN  IF Len(parts) < 2 THEN [fatal |-> TRUE, err |-> FALSE, pid |-> 0]
        ELSE IF status # <<"start/running">>
             THEN [fatal |-> FALSE, err |-> TRUE, pid |-> 0]
        ELSE IF Len(commaSeparated) # 2 THEN [fatal |-> TRUE, err |-> FALSE, pid |-> 0]
        ELSE IF pid.err THEN [fatal |-> TRUE, err |-> FALSE, pid |-> 0]
        ELSE [fatal |-> FALSE, err |-> FALSE, pid |-> pid.val]

\* A start time that is never compared.
sameStartTimeUnchecked(currentProcStartTime, sv) == TRUE

\* verifyStillRunning's comparison of the record's start time with the stored one.
sameStartTime(currentProcStartTime, sv) == currentProcStartTime = sv.procStatStartTime

\* A second answer that is never compared.
samePidUnchecked(recheckPid, sv) == TRUE

\* findPID's comparison of the second answer with the stored pid.
samePid(recheckPid, sv) == recheckPid = sv.pid

\* scrape: whether the service is looked up (findPID) at this point.
needsFindPID(sv) == sv.pid = -1

\* scrape's readInt64 closure.
readInt64(procStatData, idx) == ParseInt(At(procStatData, idx))

\* scrape: the four values computed from a record (lines 316-319), and whether
\* a field did not parse.
scrapeValues(procStatData) ==
    LET ut == readInt64(procStatData, PROC_PID_STAT_UTIME)
        st == readInt64(procStatData, PROC_PID_STAT_STIME)
        cut == readInt64(procStatData, PROC_PID_STAT_CUTIME)
        cst == readInt64(procStatData, PROC_PID_STAT_CSTIME)
        vs == readInt64(procStatData, PROC_PID_STAT_VSIZE)
        rss == readInt64(procStatData, PROC_PID_STAT_RSS)
    IN  [fatal |-> ut.err \/ st.err \/ cut.err \/ cst.err \/ vs.err \/ rss.err,
         procStatCPUSelfTime |-> ut.val + st.val,
         procStatCPUTime |-> ut.val + st.val + cut.val + cst.val,
         procStatVSize |-> vs.val,
         procStatRSS |-> rss.val]

\* scrape, lines 316-319: the computed values are stored.
\* (First: a scrape that stores the CPU values only.)
storeCPUOnly(sv, v) ==
    [sv EXCEPT !.procStatCPUSelfTime = v.procStatCPUSelfTime,
               !.procStatCPUTime = v.procStatCPUTime]

storeValues(sv, v) ==
    [sv EXCEPT !.procStatCPUSelfTime = v.procStatCPUSelfTime,
               !.procStatCPUTime = v.procStatCPUTime,
               !.procStatVSize = v.procStatVSize,
               !.procStatRSS = v.procStatRSS]

\* An uptime computed without regard to the service being down.
uptimeOfAnyService(sv, systemUptimeInTicks, clkTck) ==
    (systemUptimeInTicks - sv.procStatStartTime) * clkTck

\* Collect: the uptime published for a service.
serviceUptimeSeconds(sv, systemUptimeInTicks, clkTck) ==
    IF sv.pid = -1 THEN -1
    ELSE (systemUptimeInTicks - sv.procStatStartTime) * clkTck

\* strconv.ParseFloat on digits with an optional fraction: the value is
\* num / den.
ParseFloat(s) ==
    LET ps == Split(s, ".")
        frac == IF Len(ps) = 2 THEN ps[2] ELSE <<>>
        RECURSIVE Pow10(_)
        Pow10(n) == IF n = 0 THEN 1 ELSE 10 * Pow10(n - 1)
    IN  IF Len(ps) > 2 \/ ~AllDigits(ps[1]) \/ (Len(ps) = 2 /\ ~AllDigits(frac))
        THEN [err |-> TRUE, num |-> 0, den |-> 1]
        ELSE [err |-> FALSE, num |-> DecimalValue(ps[1] \o frac, 0),
              den |-> Pow10(Len(frac))]

\* Collect, lines 331-336: /proc/uptime to ticks (int64 of the product cuts
\* the fraction).
systemUptimeInTicks(raw, clkTck) ==
    LET procUptimeData == Split(raw, " ")
        f == ParseFloat(procUptimeData[1])
    IN  IF Len(procUptimeData) < 2 \/ f.err THEN [fatal |-> TRUE, ticks |-> 0]
        ELSE [fatal |-> FALSE, ticks |-> (f.num * clkTck) \div f.den]

\* The metric names of newSvcCollector's descriptors.
SM_PROCESS_START == "service_process_start"
SM_PROCESS_CPU_SELF_TIME == "service_cpu_self_time_total"
SM_PROCESS_CPU_TIME == "service_cpu_time_total"
SM_PROCESS_VSIZE == "service_current_vsize"
SM_PROCESS_RSS == "service_current_rss"
SM_PROCESS_UPTIME_SECONDS == "service_process_uptime_seconds"

Sample(m, name, v) == [metric |-> m, service |-> name, value |-> v]

\* One sample sent on the channel.
Send(x) == SetToBag({x})

\* Samples sent for Running services only.
serviceSamplesWhenRunning(name, sv, ticks, clkTck) ==
    IF sv.pid = -1 THEN EmptyBag
    ELSE Send(Sample(SM_PROCESS_START, name, sv.procStatStartTime))
         (+) Send(Sample(SM_PROCESS_CPU_SELF_TIME, name, sv.procStatCPUSelfTime))
         (+) Send(Sample(SM_PROCESS_CPU_TIME, name, sv.procStatCPUTime))
         (+) Send(Sample(SM_PROCESS_VSIZE, name, sv.procStatVSize))
         (+) Send(Sample(SM_PROCESS_RSS, name, sv.procStatRSS))
         (+) Send(Sample(SM_PROCESS_UPTIME_SECONDS, name,
                         serviceUptimeSeconds(sv, ticks, clkTck)))

\* Collect, lines 337-380: the samples sent for one service, as a bag (the
\* channel's order is not looked at).
serviceSamples(name, sv, ticks, clkTck) ==
    Send(Sample(SM_PROCESS_START, name, sv.procStatStartTime))
    (+) Send(Sample(SM_PROCESS_CPU_SELF_TIME, name, sv.procStatCPUSelfTime))
    (+) Send(Sample(SM_PROCESS_CPU_TIME, name, sv.procStatCPUTime))
    (+) Send(Sample(SM_PROCESS_VSIZE, name, sv.procStatVSize))
    (+) Send(Sample(SM_PROCESS_RSS, name, sv.procStatRSS))
    (+) Send(Sample(SM_PROCESS_UPTIME_SECONDS, name,
                    serviceUptimeSeconds(sv, ticks, clkTck)))

(***************************************************************************)
(* State.                                                                  *)
(***************************************************************************)
VARIABLES
    services,      \* c.services: name -> the service's fields
    SC_CLK_TCK,    \* the tick rate read at start-up
    exited,        \* the process has ended (log.Fatalf, os.Exit, a panic)
    pc,            \* where each Collect call stands
    todo,          \* the services a Collect call has still to scrape
    cur,           \* the service a Collect call is scraping ("": none yet)
    procStatData,  \* scrape's procStatData
    procUptime,    \* the text of /proc/uptime a Collect call read
    ch,            \* the samples a Collect call has sent (a bag)
    obs,           \* what a Collect call's scrape of cur saw
    reported,      \* the services a Collect call was told are not running
    world,         \* what the environment can answer (fixed)
    exitCause,     \* what ended the process ("": it runs)
    lastRead,      \* per service: the stat read its stored values come from
    reader         \* a stat reader at work on one file (SpecReader)

vars == <<services, SC_CLK_TCK, exited, pc, todo, cur, procStatData, procUptime, ch, obs,
          reported, world, exitCause, lastRead, reader>>

Services == DOMAIN services

\* What a Collect call records about the scrape it is in: the service's fields
\* at its start, the service manager's answers and the stat reads, in order.
NoObs == [done |-> FALSE, before |-> NewService, queries |-> <<>>, reads |-> <<>>]

\* The whole environment, and one in which the service manager knows one pid
\* and the kernel one process.
World == [pids |-> Pids, stats |-> KernelStats, uptimes |-> UptimeFiles]

SmallWorld ==
    [pids |-> {700},
     stats |-> {Stat(CommPlain, 10, 5, 0, 0, 1000, 4096000, 50, NumStatFields)},
     uptimes |-> {<<"5", "0", ".", "0", "0", " ", "9", "1", ".", "5", "0", "\n">>}]

\* No stat read: the service holds no values read from a record.
NoRead == [gone |-> TRUE, pid |-> -1, rec |-> Nil]

\* No stat reader at work.
NoReader == [file |-> "", at |-> "", raw |-> Nil, data |-> Nil, idx |-> -1]

InitWith(names, w) ==
    /\ world = w
    /\ services = [s \in names |-> NewService]
    /\ SC_CLK_TCK \in TickRates
    /\ exited = FALSE
    /\ pc = [p \in Procs |-> "idle"]
    /\ todo = [p \in Procs |-> {}]
    /\ cur = [p \in Procs |-> ""]
    /\ procStatData = [p \in Procs |-> Nil]
    /\ procUptime = [p \in Procs |-> Nil]
    /\ ch = [p \in Procs |-> EmptyBag]
    /\ obs = [p \in Procs |-> NoObs]
    /\ reported = [p \in Procs |-> {}]
    /\ exitCause = ""
    /\ lastRead = [s \in names |-> NoRead]

\* main, lines 407 and 428: the collector as constructed.
Init == reader = NoReader /\ \E names \in ServiceNameSets : InitWith(names, World)

\* A read of /proc/<pid>/stat: the file is missing (gone) or holds the record
\* of a process; only a pid of a process can have one.
StatReads(pid) ==
    {[gone |-> TRUE, pid |-> pid, rec |-> Nil]}
    \cup (IF pid > 0 THEN {[gone |-> FALSE, pid |-> pid, rec |-> k] : k \in world.stats}
          ELSE {})

\* The outputs of the status command.
StatusReads == {StatusRunning(pid) : pid \in world.pids} \cup {StatusStopped}

\* What askServiceForPID, readProcStatData and Collect's reading of
\* /proc/uptime return for each text the environment can hold.
statusAnswers == [output \in StatusOutputs |-> askServiceForPID(output)]

procStatReads ==
    [pid \in Pids |-> [k \in KernelStats |-> readProcStatData(StatFile(pid, k))]]

uptimeReads ==
    [raw \in UptimeFiles |-> [c \in TickRates |-> systemUptimeInTicks(raw, c)]]

(***************************************************************************)
(* Collect, step by step.  A step is what happens between two of the calls *)
(* that leave the process (the status command, a read of /proc).           *)
(***************************************************************************)
\* A scrape request arrives and Collect starts.
Begin(p) ==
    /\ ~exited
    /\ pc[p] = "idle"
    /\ pc' = [pc EXCEPT ![p] = "loop"]
    /\ todo' = [todo EXCEPT ![p] = Services]
    /\ cur' = [cur EXCEPT ![p] = ""]
    /\ procStatData' = [procStatData EXCEPT ![p] = Nil]
    /\ procUptime' = [procUptime EXCEPT ![p] = Nil]
    /\ ch' = [ch EXCEPT ![p] = EmptyBag]
    /\ obs' = [obs EXCEPT ![p] = NoObs]
    /\ reported' = [reported EXCEPT ![p] = {}]
    /\ UNCHANGED <<services, SC_CLK_TCK, exited, world, exitCause, lastRead, reader>>

\* Collect calls run one at a time: one call, then the next.
BeginAlone(p) ==
    /\ p = CHOOSE q \in Procs : \A r \in Procs : q <= r
    /\ Begin(p)

\* Collect calls of concurrent scrape requests overlap.
BeginConcurrent(p) == Begin(p)

\* scrape, line 292: the service has a pid to verify.
hasPid(sv) == sv.pid # -1

\* What ends the process: malformed data (log.Fatalf), and the panic of
\* indexing a nil procStatData.
UNEXPECTED_STATUS == "could not query for the status of service"
UNEXPECTED_STAT_DATA == "unexpected stat data"
GARBAGE_START_TIME == "garbage start_time"
GARBAGE_DATA == "garbage data at column index"
UNEXPECTED_UPTIME_DATA == "unexpected /proc/uptime data"
INDEX_OUT_OF_RANGE == "panic: index out of range"

\* The process ends: log.Fatalf, os.Exit or a panic.
Exit(why) ==
    /\ exited' = TRUE
    /\ exitCause' = why
    /\ UNCHANGED <<services, SC_CLK_TCK, pc, todo, cur, procStatData, procUptime, ch,
                   obs, reported, world, lastRead, reader>>

\* The service's stored values are traced to the read they come from as
\* long as it keeps its pid.
Traced(s) ==
    lastRead' = [lastRead EXCEPT ![s] = IF services'[s].pid = -1 THEN NoRead ELSE @]

\* A return from scrape that ends Collect's loop over the services.
ReturnEndsLoop(p) ==
    /\ pc' = [pc EXCEPT ![p] = "idle"]
    /\ procStatData' = [procStatData EXCEPT ![p] = Nil]

\* scrape returns to Collect's loop; its procStatData is no more.
Return(p) ==
    /\ pc' = [pc EXCEPT ![p] = "loop"]
    /\ procStatData' = [procStatData EXCEPT ![p] = Nil]

\* The service manager's answer, noted when it is "not running".
Reported(p, a) ==
    reported' = [reported EXCEPT ![p] = IF a.err THEN @ \cup {cur[p]} ELSE @]

\* Collect's loop takes a service and scrape starts (lines 328-329, 290-292).
ScrapeBegin(p, s) ==
    /\ ~exited
    /\ pc[p] = "loop"
    /\ s \in todo[p]
    /\ cur' = [cur EXCEPT ![p] = s]
    /\ todo' = [todo EXCEPT ![p] = @ \ {s}]
    /\ procStatData' = [procStatData EXCEPT ![p] = Nil]
    /\ obs' = [obs EXCEPT ![p] = [NoObs EXCEPT !.before = services[s]]]
    /\ pc' = [pc EXCEPT ![p] = IF hasPid(services[s]) THEN "verify_read"
                               ELSE IF needsFindPID(services[s]) THEN "find_ask1"
                               ELSE "update"]
    /\ UNCHANGED <<services, SC_CLK_TCK, exited, procUptime, ch, reported, world,
                   exitCause, lastRead, reader>>

\* verifyStillRunning, lines 188-192: the stat file of the stored pid is read.
VerifyRead(p) ==
    LET s == cur[p] IN
    /\ ~exited
    /\ pc[p] = "verify_read"
    /\ \E r \in StatReads(services[s].pid) :
         LET d == procStatReads[r.pid][r.rec] IN
         IF ~r.gone /\ d.fatal THEN Exit(UNEXPECTED_STAT_DATA)
         ELSE /\ obs' = [obs EXCEPT ![p].reads = Append(@, r)]
              /\ IF r.gone
                 THEN /\ services' = [services EXCEPT ![s] = reset(@)]
                      /\ procStatData' = [procStatData EXCEPT ![p] = Nil]
                      /\ pc' = [pc EXCEPT ![p] =
                                  IF needsFindPID(reset(services[s])) THEN "find_ask1"
                                  ELSE "update"]
                 ELSE /\ procStatData' = [procStatData EXCEPT ![p] = d.data]
                      /\ pc' = [pc EXCEPT ![p] = "verify_cmp"]
                      /\ UNCHANGED services
              /\ Traced(s)
              /\ UNCHANGED <<SC_CLK_TCK, exited, todo, cur, procUptime, ch, reported, world,
                             exitCause, reader>>

\* verifyStillRunning, lines 193-201, and scrape, lines 296-301: the record's
\* start time is compared with the stored one.
VerifyCompare(p) ==
    LET s == cur[p]
        currentProcStartTime == ParseInt(At(procStatData[p], PROC_PID_STAT_STARTTIME))
        stillRunning == sameStartTime(currentProcStartTime.val, services[s])
        after == IF stillRunning THEN services[s] ELSE reset(services[s])
    IN
    /\ ~exited
    /\ pc[p] = "verify_cmp"
    /\ IF currentProcStartTime.err THEN Exit(GARBAGE_START_TIME)
       ELSE /\ services' = [services EXCEPT ![s] = after]
            /\ procStatData' = [procStatData EXCEPT ![p] =
                                  IF stillRunning THEN @ ELSE Nil]
            /\ pc' = [pc EXCEPT ![p] = IF needsFindPID(after) THEN "find_ask1"
                                       ELSE "update"]
            /\ Traced(s)
            /\ UNCHANGED <<SC_CLK_TCK, exited, todo, cur, procUptime, ch, obs, reported, world,
                           exitCause, reader>>

\* findPID, lines 244-250: the first question to the service manager; its
\* answer is stored in svc.pid.
FindAsk1(p) ==
    LET s == cur[p] IN
    /\ ~exited
    /\ pc[p] = "find_ask1"
    /\ \E output \in StatusReads :
         LET a == statusAnswers[output] IN
         IF a.fatal THEN Exit(UNEXPECTED_STATUS)
         ELSE /\ obs' = [obs EXCEPT ![p].queries = Append(@, [err |-> a.err, pid |-> a.pid]),
                                    ![p].done = a.err]
              /\ services' = [services EXCEPT ![s] =
                                IF a.err THEN reset([@ EXCEPT !.pid = a.pid])
                                ELSE [@ EXCEPT !.pid = a.pid]]
              /\ Reported(p, a)
              /\ IF a.err THEN Return(p)
                 ELSE pc' = [pc EXCEPT ![p] = "find_read"] /\ UNCHANGED procStatData
              /\ Traced(s)
              /\ UNCHANGED <<SC_CLK_TCK, exited, todo, cur, procUptime, ch, world, exitCause,
                             reader>>

\* findPID, lines 252-257: the stat file of svc.pid is read.
FindRead(p) ==
    LET s == cur[p] IN
    /\ ~exited
    /\ pc[p] = "find_read"
    /\ \E r \in StatReads(services[s].pid) :
         LET d == procStatReads[r.pid][r.rec] IN
         IF ~r.gone /\ d.fatal THEN Exit(UNEXPECTED_STAT_DATA)
         ELSE /\ obs' = [obs EXCEPT ![p].reads = Append(@, r), ![p].done = r.gone]
              /\ IF r.gone
                 THEN /\ services' = [services EXCEPT ![s] = reset(@)]
                      /\ Return(p)
                 ELSE /\ procStatData' = [procStatData EXCEPT ![p] = d.data]
                      /\ pc' = [pc EXCEPT ![p] = "find_ask2"]
                      /\ UNCHANGED services
              /\ Traced(s)
              /\ UNCHANGED <<SC_CLK_TCK, exited, todo, cur, procUptime, ch, reported, world,
                             exitCause, reader>>

\* findPID, lines 269-288: the second question; when its answer is the stored
\* pid, the record's start time is stored.
FindAsk2(p) ==
    LET s == cur[p]
        startTime == ParseInt(At(procStatData[p], PROC_PID_STAT_STARTTIME))
    IN
    /\ ~exited
    /\ pc[p] = "find_ask2"
    /\ \E output \in StatusReads :
         LET a == statusAnswers[output]
             died == a.err \/ ~samePid(a.pid, services[s])
         IN
         IF a.fatal THEN Exit(UNEXPECTED_STATUS)
         ELSE IF ~died /\ startTime.err THEN Exit(GARBAGE_START_TIME)
         ELSE /\ obs' = [obs EXCEPT ![p].queries = Append(@, [err |-> a.err, pid |-> a.pid]),
                                    ![p].done = died]
              /\ services' = [services EXCEPT ![s] =
                                IF died THEN reset(@)
                                ELSE [@ EXCEPT !.procStatStartTime = startTime.val]]
              /\ Reported(p, a)
              /\ IF died THEN Return(p)
                 ELSE pc' = [pc EXCEPT ![p] = "update"] /\ UNCHANGED procStatData
              /\ Traced(s)
              /\ UNCHANGED <<SC_CLK_TCK, exited, todo, cur, procUptime, ch, world, exitCause,
                             reader>>

\* scrape, lines 309-320: the CPU and memory values are computed from
\* procStatData; indexing a nil procStatData panics.
ScrapeUpdate(p) ==
    LET s == cur[p]
        v == scrapeValues(procStatData[p])
    IN
    /\ ~exited
    /\ pc[p] = "update"
    /\ IF procStatData[p] = Nil THEN Exit(INDEX_OUT_OF_RANGE)
       ELSE IF v.fatal THEN Exit(GARBAGE_DATA)
       ELSE /\ services' = [services EXCEPT ![s] = storeValues(@, v)]
            /\ obs' = [obs EXCEPT ![p].done = TRUE]
            /\ Return(p)
            /\ lastRead' = [lastRead EXCEPT ![s] = obs[p].reads[Len(obs[p].reads)]]
            /\ UNCHANGED <<SC_CLK_TCK, exited, todo, cur, procUptime, ch, reported, world,
                           exitCause, reader>>

\* Collect, lines 331-380: every service is scraped; /proc/uptime is read and
\* the samples of every service are sent.
CollectPublish(p) ==
    /\ ~exited
    /\ pc[p] = "loop"
    /\ todo[p] = {}
    /\ \E raw \in world.uptimes :
         LET u == uptimeReads[raw][SC_CLK_TCK] IN
         IF u.fatal THEN Exit(UNEXPECTED_UPTIME_DATA)
         ELSE /\ procUptime' = [procUptime EXCEPT ![p] = raw]
              /\ ch' = [ch EXCEPT ![p] =
                          BagUnion({serviceSamples(s, services[s], u.ticks, SC_CLK_TCK) :
                                    s \in Services})]
              /\ pc' = [pc EXCEPT ![p] = "idle"]
              /\ UNCHANGED <<services, SC_CLK_TCK, exited, todo, cur, procStatData, obs,
                             reported, world, exitCause, lastRead, reader>>

Step(p) ==
    \/ \E s \in Services : ScrapeBegin(p, s)
    \/ VerifyRead(p)
    \/ VerifyCompare(p)
    \/ FindAsk1(p)
    \/ FindRead(p)
    \/ FindAsk2(p)
    \/ ScrapeUpdate(p)
    \/ CollectPublish(p)

\* Scrape requests served one at a time.
Next == \E p \in Procs : BeginAlone(p) \/ Step(p)

Spec == Init /\ [][Next]_vars

\* Scrape requests served concurrently (net/http serves each connection in
\* its own goroutine; Collect takes no lock), for an exporter started with
\* one service name.
NextConcurrent == \E p \in Procs : BeginConcurrent(p) \/ Step(p)

SpecConcurrent ==
    reader = NoReader /\ InitWith({"alpha"}, SmallWorld) /\ [][NextConcurrent]_vars

(***************************************************************************)
(* The stat reader and the accesses to its record, by themselves, in the   *)
(* two versions of the program: src/exporter.go and src/unnamed/part_001.  *)
(***************************************************************************)
EXPORTER_GO == "src/exporter.go"
PART_001 == "src/unnamed/part_001"

\* The indexes at which each version reads the record it was returned:
\* src/exporter.go in verifyStillRunning and findPID, part_001 there and in
\* scrape.
IndexesRead(file) ==
    IF file = EXPORTER_GO THEN {21}
    ELSE {PROC_PID_STAT_STARTTIME, PROC_PID_STAT_UTIME, PROC_PID_STAT_STIME,
          PROC_PID_STAT_CUTIME, PROC_PID_STAT_CSTIME, PROC_PID_STAT_VSIZE,
          PROC_PID_STAT_RSS}

\* Stat files of 1 to NumStatFields fields.
StatFilesOfAnyLength ==
    {StatFile(pid, Stat(CommPlain, 10, 5, 0, 0, 1000, 4096000, 50, n)) :
        pid \in {700}, n \in 1..NumStatFields}

\* A version of the program is about to read a stat file.
InitReader ==
    /\ InitWith({"alpha"}, SmallWorld)
    /\ \E file \in {EXPORTER_GO, PART_001}, raw \in StatFilesOfAnyLength :
          reader = [NoReader EXCEPT !.file = file, !.at = "file", !.raw = raw]

trackerVars == <<services, SC_CLK_TCK, exited, pc, todo, cur, procStatData, procUptime, ch,
                 obs, reported, world, exitCause, lastRead>>

\* readProcStatData returns the record, or ends the process (elog.Fatalf).
ReaderRead ==
    /\ reader.at = "file"
    /\ LET d == IF reader.file = EXPORTER_GO THEN exporterGoReadProcStatData(reader.raw)
                ELSE readProcStatData(reader.raw)
       IN  reader' = IF d.fatal THEN [reader EXCEPT !.at = "fatal"]
                     ELSE [reader EXCEPT !.at = "record", !.data = d.data]
    /\ UNCHANGED trackerVars

\* procStatData[idx] is parsed: a panic when idx is out of range, log.Fatalf
\* when the piece is not a number.
ReaderIndex(idx) ==
    /\ reader.at = "record"
    /\ idx \in IndexesRead(reader.file)
    /\ reader' = [reader EXCEPT
                    !.idx = idx,
                    !.at = IF idx >= Len(reader.data) THEN "panic"
                           ELSE IF ParseInt(At(reader.data, idx)).err THEN "fatal"
                           ELSE "field"]
    /\ UNCHANGED trackerVars

NextReader == ReaderRead \/ \E idx \in 0..NumStatFields : ReaderIndex(idx)

SpecReader == InitReader /\ [][NextReader]_vars

(***************************************************************************)
(* Properties.                                                             *)
(***************************************************************************)
\* The space-separated pieces of each stat file the environment can hold.
Pieces == [pid \in Pids |-> [k \in KernelStats |-> Split(StatFile(pid, k), " ")]]

\* The space-separated field i (counted from 1) of the stat file a read found.
Field(r, i) == ParseInt(Pieces[r.pid][r.rec][i]).val

\* The kernel's layout: field 22 is the start tick.
StartTickField(r) == Field(r, 22)

\* The values the tracker derives from the stat file a read found.
Derived(r) == scrapeValues(Pieces[r.pid][r.rec])

\* The scrape of cur[p] by Collect call p has returned, and nothing has
\* touched the service since.
Scraped(p) == cur[p] # "" /\ obs[p].done /\ pc[p] \in {"loop", "idle"}

\* Collect call p has returned and sent its samples.
Published(p) == pc[p] = "idle" /\ ch[p] # EmptyBag

Current(p) == services[cur[p]]

FirstAnswer(p) == obs[p].queries[1]

SecondAnswer(p) == obs[p].queries[2]

\* The last stat read of the scrape (in a discovery: step 2).
LastRead(p) == obs[p].reads[Len(obs[p].reads)]

Discovered(p) == obs[p].queries # <<>>

\* Discovery's three steps agree.
Agree(p) ==
    /\ Len(obs[p].queries) = 2
    /\ ~FirstAnswer(p).err
    /\ ~SecondAnswer(p).err
    /\ SecondAnswer(p).pid = FirstAnswer(p).pid
    /\ obs[p].reads # <<>>
    /\ ~LastRead(p).gone

NotRunning(sv) == sv.pid = -1 /\ sv.procStatStartTime = -1

ZeroSnapshot(sv) ==
    /\ sv.procStatCPUSelfTime = 0
    /\ sv.procStatCPUTime = 0
    /\ sv.procStatVSize = 0
    /\ sv.procStatRSS = 0

\* The values of metric m sent for service s by Collect call p.
Sent(p, m, s) ==
    {x.value : x \in {y \in BagToSet(ch[p]) : y.metric = m /\ y.service = s}}

\* C1: a discovery ends with the service Running exactly when the first
\* answer is a pid, the stat read succeeds and the second answer is the same
\* pid; the service then holds that pid and the start tick (field 22) of the
\* record read in step 2.
C1_DiscoveryCommitsOnAgreement ==
    \A p \in Procs :
        Scraped(p) /\ Discovered(p) =>
            /\ Current(p).pid # -1 <=> Agree(p)
            /\ Agree(p) =>
                /\ Current(p).pid = FirstAnswer(p).pid
                /\ Current(p).procStatStartTime = StartTickField(LastRead(p))

C1_Witness ==
    \E p \in Procs :
        /\ Scraped(p)
        /\ Agree(p)
        /\ FirstAnswer(p).pid = 700
        /\ Current(p).pid = 700
        /\ Current(p).procStatStartTime = 1000

\* The second answer of a discovery is "not running" or another pid.
SecondAnswerDisagrees(p) ==
    /\ Len(obs[p].queries) = 2
    /\ SecondAnswer(p).err \/ SecondAnswer(p).pid # FirstAnswer(p).pid

\* C2: when the second answer of a discovery is "not running" or another pid
\* than the first, the service is NotRunning after it (pid and start tick
\* -1), its CPU and memory values are 0, and the uptime published for it is -1.
C2_DisagreementStaysNotRunning ==
    \A p \in Procs :
        Scraped(p) /\ SecondAnswerDisagrees(p) =>
            /\ NotRunning(Current(p))
            /\ ZeroSnapshot(Current(p))
            /\ Published(p) => Sent(p, SM_PROCESS_UPTIME_SECONDS, cur[p]) = {-1}

C2_Witness ==
    \E p \in Procs :
        /\ Published(p)
        /\ Scraped(p)
        /\ Len(obs[p].queries) = 2
        /\ FirstAnswer(p).pid = 700
        /\ ~SecondAnswer(p).err
        /\ SecondAnswer(p).pid = 900
        /\ ~LastRead(p).gone

\* The scrape began with a stored pid and re-verification found it gone or
\* with another start tick.
VerifyFailed(p) ==
    /\ hasPid(obs[p].before)
    /\ obs[p].reads # <<>>
    /\ \/ obs[p].reads[1].gone
       \/ StartTickField(obs[p].reads[1]) # obs[p].before.procStatStartTime

\* The scrape began with a stored pid and re-verification found the same
\* start tick.
VerifyPassed(p) ==
    /\ hasPid(obs[p].before)
    /\ obs[p].reads # <<>>
    /\ ~obs[p].reads[1].gone
    /\ StartTickField(obs[p].reads[1]) = obs[p].before.procStatStartTime

\* C3 as stated: after a failed re-verification the service is NotRunning
\* (pid and start tick -1, zero snapshot) at the end of that cycle.
C3_Original ==
    \A p \in Procs :
        Scraped(p) /\ VerifyFailed(p) =>
            NotRunning(Current(p)) /\ ZeroSnapshot(Current(p))

\* C3, amended: a service that is NotRunning at the start of its scrape is
\* discovered only; a Running one is re-verified, and discovered in the same
\* cycle exactly when the re-verification fails; after a failed
\* re-verification it ends the cycle NotRunning with a zero snapshot unless
\* that discovery's three steps agree, and then it holds the discovered pid.
C3_ReverifyThenDiscover ==
    \A p \in Procs :
        Scraped(p) =>
            /\ ~hasPid(obs[p].before) => Discovered(p) /\ Len(obs[p].reads) <= 1
            /\ VerifyPassed(p) => ~Discovered(p) /\ Len(obs[p].reads) = 1
            /\ VerifyFailed(p) =>
                /\ Discovered(p)
                /\ Agree(p) \/ (NotRunning(Current(p)) /\ ZeroSnapshot(Current(p)))
                /\ Agree(p) => Current(p).pid = FirstAnswer(p).pid

C3_Witness ==
    \E p \in Procs :
        /\ Scraped(p)
        /\ VerifyFailed(p)
        /\ Agree(p)
        /\ Current(p).pid # -1

\* C4: a Running service whose fresh stat read shows the stored start tick
\* stays Running with the same pid and start tick, the service manager is not
\* asked, and its CPU and memory values are the ones derived from the record
\* read in this cycle (virtual size and resident set size: its fields 23, 24).
C4_VerifiedServiceIsRefreshed ==
    \A p \in Procs :
        Scraped(p) /\ VerifyPassed(p) =>
            /\ Current(p).pid = obs[p].before.pid
            /\ Current(p).procStatStartTime = obs[p].before.procStatStartTime
            /\ obs[p].queries = <<>>
            /\ Current(p).procStatCPUSelfTime = Derived(obs[p].reads[1]).procStatCPUSelfTime
            /\ Current(p).procStatCPUTime = Derived(obs[p].reads[1]).procStatCPUTime
            /\ Current(p).procStatVSize = Field(obs[p].reads[1], 23)
            /\ Current(p).procStatRSS = Field(obs[p].reads[1], 24)

C4_Witness ==
    \E p \in Procs :
        /\ Scraped(p)
        /\ VerifyPassed(p)
        /\ obs[p].before.procStatVSize = 4096000
        /\ Current(p).procStatVSize = 4100000
        /\ Current(p).pid = obs[p].before.pid

\* C5: after a poll cycle, every service the service manager reported as not
\* running during it has pid -1 and the published uptime -1, whether it was
\* Running or NotRunning before.
C5_ReportedNotRunning ==
    \A p \in Procs :
        Published(p) =>
            \A s \in reported[p] :
                /\ services[s].pid = -1
                /\ Sent(p, SM_PROCESS_UPTIME_SECONDS, s) = {-1}

C5_Witness ==
    \E p \in Procs :
        /\ Published(p)
        /\ cur[p] \in reported[p]
        /\ hasPid(obs[p].before)
        /\ Sent(p, SM_PROCESS_UPTIME_SECONDS, cur[p]) = {-1}

\* No Collect call is under way.
Quiet == \A p \in Procs : pc[p] = "idle"

\* C6: after construction and after every completed poll cycle, every
\* service has pid -1 exactly when its start tick is -1.
C6_PidAndStartTickTogether ==
    Quiet => \A s \in Services :
                services[s].pid = -1 <=> services[s].procStatStartTime = -1

C6_Witness ==
    /\ Quiet
    /\ \E p \in Procs : Published(p)
    /\ \E s \in Services : services[s].pid = -1 /\ services[s].procStatStartTime = -1
    /\ \E s \in Services : services[s].pid = 700 /\ services[s].procStatStartTime = 1000

\* Collect call p is inside scrape.
InScrape(p) ==
    pc[p] \in {"verify_read", "verify_cmp", "find_ask1", "find_read", "find_ask2", "update"}

\* C7: two Collect calls are never inside the scrape of the same service at
\* the same time.
C7_ScrapesExcludeEachOther ==
    \A p, q \in Procs :
        p # q /\ InScrape(p) /\ InScrape(q) => cur[p] # cur[q]

\* The uptime in seconds /proc/uptime held when Collect call p read it, as
\* the fraction num / den.
SystemUptime(p) == ParseFloat(Split(procUptime[p], " ")[1])

\* systemUptimeSeconds * tickRate (a whole number for every uptime and tick
\* rate of the environment).
SystemUptimeTicks(p) == (SystemUptime(p).num * SC_CLK_TCK) \div SystemUptime(p).den

\* C8: the uptime published for a Running service is
\* (systemUptimeTicks - startTick) / tickRate, with systemUptimeTicks =
\* systemUptimeSeconds * tickRate; that is, uptime * tickRate =
\* systemUptimeTicks - startTick.
C8_UptimeInSeconds ==
    \A p \in Procs :
        Published(p) =>
            \A s \in Services :
                hasPid(services[s]) =>
                    \A v \in Sent(p, SM_PROCESS_UPTIME_SECONDS, s) :
                        v * SC_CLK_TCK
                            = SystemUptimeTicks(p) - services[s].procStatStartTime

\* The scrape stored values computed from its last stat read, a record with
\* as many space-separated pieces as the kernel wrote fields.
StoredFromKernelRecord(p) ==
    /\ Scraped(p)
    /\ hasPid(Current(p))
    /\ obs[p].reads # <<>>
    /\ ~LastRead(p).gone
    /\ Len(Pieces[LastRead(p).pid][LastRead(p).rec]) = NumStatFields

\* C9: from a record in the kernel's layout the tracker computes cpuSelfTime
\* = field 14 + field 15 (user and kernel ticks) and cpuTotalTime =
\* cpuSelfTime + field 16 + field 17 (waited-children user and kernel ticks).
C9_CpuTimesFromKernelFields ==
    \A p \in Procs :
        StoredFromKernelRecord(p) =>
            /\ Current(p).procStatCPUSelfTime = Field(LastRead(p), 14) + Field(LastRead(p), 15)
            /\ Current(p).procStatCPUTime =
                  Field(LastRead(p), 14) + Field(LastRead(p), 15)
                  + Field(LastRead(p), 16) + Field(LastRead(p), 17)

\* k2 is k under another command name.
SameButComm(k, k2) == [k EXCEPT !.comm = k2.comm] = k2

\* C10: the start tick and the CPU and memory values a scrape stored from a
\* record are the ones the tracker extracts from any record that differs from
\* it in the command name only.
C10_CommandNameDoesNotMatter ==
    \A p \in Procs :
        Scraped(p) /\ hasPid(Current(p)) /\ obs[p].reads # <<>> /\ ~LastRead(p).gone =>
            \A k2 \in KernelStats :
                SameButComm(LastRead(p).rec, k2) =>
                    LET r2 == [LastRead(p) EXCEPT !.rec = k2] IN
                    /\ Current(p).procStatStartTime =
                          ParseInt(At(Pieces[r2.pid][r2.rec], PROC_PID_STAT_STARTTIME)).val
                    /\ Current(p).procStatCPUSelfTime = Derived(r2).procStatCPUSelfTime
                    /\ Current(p).procStatCPUTime = Derived(r2).procStatCPUTime
                    /\ Current(p).procStatVSize = Derived(r2).procStatVSize
                    /\ Current(p).procStatRSS = Derived(r2).procStatRSS

\* Every answer the service manager gave during the scrape was "not running".
AlwaysReportedStopped(p) ==
    /\ obs[p].queries # <<>>
    /\ \A i \in DOMAIN obs[p].queries : obs[p].queries[i].err

\* C11: a poll of a service that is NotRunning, during which the service
\* manager answers "not running" to every question, leaves the service as it
\* was (pid and start tick -1, CPU and memory values 0), asks once and reads
\* no stat file.
C11_StoppedServiceIsLeftAlone ==
    \A p \in Procs :
        Scraped(p) /\ NotRunning(obs[p].before) /\ AlwaysReportedStopped(p) =>
            /\ Current(p) = obs[p].before
            /\ NotRunning(Current(p))
            /\ ZeroSnapshot(Current(p))
            /\ Len(obs[p].queries) = 1
            /\ obs[p].reads = <<>>

\* A poll finds a service that is as constructed stopped, and leaves it so.
C11_Witness ==
    \E p \in Procs :
        /\ Scraped(p)
        /\ obs[p].before = NewService
        /\ AlwaysReportedStopped(p)
        /\ cur[p] \in reported[p]
        /\ Current(p) = NewService
        /\ obs[p].reads = <<>>

\* The stat read of a discovery (step 2): the first read of a scrape that
\* began NotRunning, the second of one that began with a re-verification.
DiscoveryReadIndex(p) == IF hasPid(obs[p].before) THEN 2 ELSE 1

\* Step 2 of the discovery found the stat file missing.
DiscoveryFoundProcessGone(p) ==
    /\ Discovered(p)
    /\ ~FirstAnswer(p).err
    /\ Len(obs[p].reads) >= DiscoveryReadIndex(p)
    /\ obs[p].reads[DiscoveryReadIndex(p)].gone

\* C12: when the stat read of discovery step 2 finds the process gone, the
\* service is NotRunning after the scrape (pid and start tick -1, zero
\* snapshot), and the scrape asked the service manager once and made no stat
\* read after that one.
C12_ProcessGoneEndsDiscovery ==
    \A p \in Procs :
        Scraped(p) /\ DiscoveryFoundProcessGone(p) =>
            /\ NotRunning(Current(p))
            /\ ZeroSnapshot(Current(p))
            /\ Len(obs[p].queries) = 1
            /\ Len(obs[p].reads) = DiscoveryReadIndex(p)

C12_Witness ==
    \E p \in Procs :
        /\ Scraped(p)
        /\ DiscoveryFoundProcessGone(p)
        /\ FirstAnswer(p).pid = 700
        /\ Len(obs[p].queries) = 1
        /\ NotRunning(Current(p))

\* C13 as stated: in every reachable state, the states between discovery
\* steps included, a service's pid is -1 exactly when its start tick is -1.
C13_Original ==
    \A s \in Services :
        services[s].pid = -1 <=> services[s].procStatStartTime = -1

\* A Collect call is between step 1 and step 3 of a discovery of service s.
InDiscovery(s) ==
    \E p \in Procs : cur[p] = s /\ pc[p] \in {"find_read", "find_ask2"}

\* C13, amended: between step 1 and step 3 of a discovery the service holds
\* the candidate pid (the first answer) while its start tick is still -1; in
\* every other state its pid is -1 exactly when its start tick is -1.
C13_PidAloneOnlyDuringDiscovery ==
    \A s \in Services :
        IF InDiscovery(s)
        THEN /\ services[s].pid # -1
             /\ services[s].procStatStartTime = -1
             /\ \A p \in Procs :
                    cur[p] = s /\ pc[p] \in {"find_read", "find_ask2"} =>
                        services[s].pid = FirstAnswer(p).pid
        ELSE services[s].pid = -1 <=> services[s].procStatStartTime = -1

C13_Witness ==
    \E p \in Procs :
        /\ pc[p] = "find_ask2"
        /\ FirstAnswer(p).pid = 700
        /\ services[cur[p]].pid = 700
        /\ services[cur[p]].procStatStartTime = -1
        /\ procStatData[p] # Nil

\* C14: after every completed poll cycle, every service that is NotRunning
\* has CPU self time, CPU total time, virtual size and resident set size 0.
C14_NotRunningHasZeroSnapshot ==
    Quiet => \A s \in Services : services[s].pid = -1 => ZeroSnapshot(services[s])

\* A service that was Running with measured values is NotRunning, with a zero
\* snapshot, after the cycle.
C14_Witness ==
    \E p \in Procs :
        /\ Quiet
        /\ Published(p)
        /\ Scraped(p)
        /\ hasPid(obs[p].before)
        /\ obs[p].before.procStatRSS > 0
        /\ NotRunning(Current(p))
        /\ ZeroSnapshot(Current(p))

\* The per-service metrics.
ServiceMetrics ==
    {SM_PROCESS_START, SM_PROCESS_CPU_SELF_TIME, SM_PROCESS_CPU_TIME,
     SM_PROCESS_VSIZE, SM_PROCESS_RSS, SM_PROCESS_UPTIME_SECONDS}

\* The samples of metric m for service s that Collect call p sent.
SamplesOf(p, m, s) == {x \in BagToSet(ch[p]) : x.metric = m /\ x.service = s}

\* Collect call p sent exactly one sample of metric m for service s.
SentOnce(p, m, s) ==
    /\ Cardinality(SamplesOf(p, m, s)) = 1
    /\ \A x \in SamplesOf(p, m, s) : CopiesIn(x, ch[p]) = 1

\* What the code treats as malformed data.
MalformedData ==
    {UNEXPECTED_STATUS, UNEXPECTED_STAT_DATA, GARBAGE_START_TIME, GARBAGE_DATA,
     UNEXPECTED_UPTIME_DATA}

\* C15: the process ends on malformed data only, never on a process that is
\* gone, a service that is not running or a pid that changed between the two
\* questions, and never by indexing a record it does not have; and a poll
\* cycle that has returned has sent exactly one sample of each per-service
\* metric for every service, 6 for each service and no other.
C15_ExpectedConditionsNeverAbort ==
    /\ exited => exitCause \in MalformedData
    /\ \A p \in Procs :
          Published(p) =>
              /\ \A s \in Services : \A m \in ServiceMetrics : SentOnce(p, m, s)
              /\ BagCardinality(ch[p]) = 6 * Cardinality(Services)

\* One cycle met all three: the stored pid of a service was gone, its
\* discovery was answered with two different pids, and another service was
\* reported not running; the cycle returned with 12 samples.
C15_Witness ==
    \E p \in Procs :
        /\ Published(p)
        /\ ~exited
        /\ Scraped(p)
        /\ hasPid(obs[p].before)
        /\ obs[p].reads[1].gone
        /\ SecondAnswerDisagrees(p)
        /\ ~SecondAnswer(p).err
        /\ reported[p] # {}
        /\ cur[p] \notin reported[p]
        /\ BagCardinality(ch[p]) = 12
        /\ SentOnce(p, SM_PROCESS_UPTIME_SECONDS, cur[p])

\* The kernel's tick counters of the record a read found: user, kernel,
\* waited-children user, waited-children kernel (fields 14 to 17).
Counters(k) == <<k.utime, k.stime, k.cutime, k.cstime>>

NonNegative(k) == \A i \in 1..4 : Counters(k)[i] >= 0

\* C16: the CPU total time stored from a record whose tick counters are not
\* negative is at least the CPU self time stored from it.
C16_CpuTotalAtLeastSelf ==
    \A s \in Services :
        lastRead[s] # NoRead /\ NonNegative(lastRead[s].rec) =>
            services[s].procStatCPUTime >= services[s].procStatCPUSelfTime

\* No tick counter of record k2 is smaller than it is in record k.
CountersNotDecreased(k, k2) == \A i \in 1..4 : Counters(k2)[i] >= Counters(k)[i]

\* C17: when a poll stores new values for a service that keeps its pid and
\* start tick, and no tick counter of the record now read is smaller than in
\* the record the values of the poll before came from, the CPU total time
\* does not decrease.
C17_CpuTotalTimeNeverDecreases ==
    [][\A s \in Services :
          /\ lastRead[s] # NoRead
          /\ lastRead'[s] # NoRead
          /\ services'[s].pid = services[s].pid
          /\ services'[s].procStatStartTime = services[s].procStatStartTime
          /\ CountersNotDecreased(lastRead[s].rec, lastRead'[s].rec)
          => services'[s].procStatCPUTime >= services[s].procStatCPUTime]_vars

\* C18: no access to a record that readProcStatData returned is out of
\* range: a stat file that is too short ends in the reader's fatal error.
C18_NoOutOfRangeAccess == reader.at # "panic"

\* C19: a step changes the fields of no service but the one the stepping
\* Collect call is scraping; a scrape that returns, with or without an error,
\* leaves the services still to be scraped as they were; and a Collect call
\* returns only when it has scraped every service.
C19_ServicesUpdatedIndependently ==
    [][/\ \A s \in Services :
            services'[s] # services[s] => \E p \in Procs : InScrape(p) /\ cur[p] = s
       /\ \A p \in Procs :
            /\ InScrape(p) /\ ~InScrape(p)' => todo'[p] = todo[p] /\ pc'[p] = "loop"
            /\ pc'[p] = "idle" => todo'[p] = {}]_vars

\* In one cycle a service was reported not running, and the service scraped
\* after it was found Running and its values stored from this cycle's read.
C19_Witness ==
    \E p \in Procs :
        /\ Published(p)
        /\ Scraped(p)
        /\ \E s \in reported[p] : s # cur[p] /\ NotRunning(services[s])
        /\ cur[p] \notin reported[p]
        /\ hasPid(Current(p))
        /\ obs[p].reads # <<>>
        /\ lastRead[cur[p]] = LastRead(p)
        /\ Current(p).procStatRSS > 0

\* C20: once no Collect call is under way, also after calls that overlapped,
\* every service has pid -1 exactly when its start tick is -1, and a service
\* with pid -1 has CPU and memory values 0.
C20_ConsistentAfterOverlap ==
    Quiet /\ (\A p \in Procs : Published(p)) =>
        \A s \in Services :
            /\ services[s].pid = -1 <=> services[s].procStatStartTime = -1
            /\ services[s].pid = -1 => ZeroSnapshot(services[s])

\* The service's CPU and memory values are the ones the tracker derives from
\* the record of read r, a read of the stored pid whose start-tick field is
\* the stored start tick.
HoldsValuesOf(sv, r) ==
    /\ ~r.gone
    /\ r.pid = sv.pid
    /\ StartTickField(r) = sv.procStatStartTime
    /\ sv.procStatCPUSelfTime = Derived(r).procStatCPUSelfTime
    /\ sv.procStatCPUTime = Derived(r).procStatCPUTime
    /\ sv.procStatVSize = Derived(r).procStatVSize
    /\ sv.procStatRSS = Derived(r).procStatRSS

\* C21: a service that is Running when its scrape has returned holds the
\* values of the last stat read of that scrape, a read of the stored pid
\* whose start-tick field is the stored start tick; and after every completed
\* poll cycle every Running service holds the values of such a read.
C21_RunningValuesFromThisCyclesRecord ==
    /\ \A p \in Procs :
          Scraped(p) /\ hasPid(Current(p)) =>
              /\ obs[p].reads # <<>>
              /\ lastRead[cur[p]] = LastRead(p)
              /\ HoldsValuesOf(Current(p), LastRead(p))
    /\ Quiet =>
          \A s \in Services :
              hasPid(services[s]) =>
                  lastRead[s] # NoRead /\ HoldsValuesOf(services[s], lastRead[s])

\* After a cycle two services are Running, one re-verified against a record
\* of its process (start tick 1000) that is not the one it was found with,
\* the other found with a process started at tick 2000.
C21_Witness ==
    \E p \in Procs :
        /\ Quiet
        /\ Published(p)
        /\ Scraped(p)
        /\ VerifyPassed(p)
        /\ Current(p).procStatStartTime = 1000
        /\ Current(p).procStatRSS # obs[p].before.procStatRSS
        /\ \E s \in Services :
              /\ s # cur[p]
              /\ hasPid(services[s])
              /\ services[s].procStatStartTime = 2000
              /\ HoldsValuesOf(services[s], lastRead[s])

====
